---------------------------- MODULE Spec2Model ----------------------------
(* Model of altair/magics.py: the %%vega and %%vegalite cell magics.       *)
(* One invocation of a magic is a run of the program counter pc from      *)
(* "version" to "done"; the notebook namespace (user_ns) and the dict     *)
(* objects it references (heap) outlive the invocations.                  *)
EXTENDS Integers, Sequences, FiniteSets, TLC

VARIABLES user_ns, heap, nxt, pc, cmd, args, cell, Renderer,
          data_transformers, data, spec, i, exc, result, parsed, lookups

vars == <<user_ns, heap, nxt, pc, cmd, args, cell, Renderer,
          data_transformers, data, spec, i, exc, result, parsed, lookups>>

(* ------------------------------ bounds -------------------------------- *)
(* Total number of characters of the dataset tokens of one magic line.   *)
MaxArgChars == 3

(* ------------------------------ strings ------------------------------- *)
(* A string is a sequence of characters, so that split(':') is computed. *)
Chars == {"d", ":"}
StrOfLen(S, lo, hi) == UNION {[1..n -> S] : n \in lo..hi}
Tokens == StrOfLen(Chars, 1, MaxArgChars)
RECURSIVE ListsOfChars(_)
ListsOfChars(n) ==
  IF n = 0 THEN {<<>>}
  ELSE UNION {{<<t>> \o l : t \in StrOfLen(Chars, k, k), l \in ListsOfChars(n - k)} :
              k \in 1..n}
TokenLists == UNION {ListsOfChars(n) : n \in 0..MaxArgChars}
(* The names the notebook namespace may bind.                             *)
Identifiers == {<<"d">>, <<"d", "d">>}

(* ------------------------------- values ------------------------------- *)
None == [t |-> "None"]
Str(s) == [t |-> "str", s |-> s]
DictRef(id) == [t |-> "dict", id |-> id]
DataFrame == [t |-> "DataFrame"]
IntVal == [t |-> "int"]
List(items) == [t |-> "list", items |-> items]

EmptyDict == [k \in {} |-> None]
SetItem(d, k, v) == [x \in DOMAIN d \cup {k} |-> IF x = k THEN v ELSE d[x]]

(* The one dict object a notebook variable can be bound to.               *)
StoreObj == 1
StoreObjs == {StoreObj}
StoreDict == "url" :> Str(<<"u">>)
StoreValues == {None, Str(<<"u">>), DictRef(StoreObj), DataFrame, IntVal}
Namespaces == UNION {[D -> StoreValues] : D \in SUBSET Identifiers}

(* ------------------------------- tables ------------------------------- *)
RENDERERS ==
  [vega |-> ("2" :> "vega_v2.Vega" @@ "3" :> "vega_v3.Vega"),
   vegalite |-> ("1" :> "vegalite_v1.VegaLite" @@ "2" :> "vegalite_v2.VegaLite")]

TRANSFORMERS ==
  [vega |-> ("2" :> "vegalite_v1.data" @@ "3" :> "vegalite_v2.data"),
   vegalite |-> ("1" :> "vegalite_v1.data" @@ "2" :> "vegalite_v2.data")]

Versions == {"1", "2", "3", "99"}
DefaultVersion == [vega |-> "3", vegalite |-> "2"]

(* `assert version in RENDERERS[family]`                                  *)
VersionSupportedAny(family, version) ==
  \E f \in DOMAIN RENDERERS : version \in DOMAIN RENDERERS[f]
VersionSupported(family, version) == version \in DOMAIN RENDERERS[family]

(* ---------------------------- exceptions ------------------------------ *)
NoExc == [type |-> "none", at |-> "none"]
Raise(type, at) == [type |-> type, at |-> at]
NoResult == [constructed |-> FALSE, cls |-> "none", spec |-> EmptyDict]

(* --------------------------- argument parsing ------------------------- *)
HasSep(s) == \E k \in 1..Len(s) : s[k] = ":"
FirstSep(s) == CHOOSE k \in 1..Len(s) :
                 s[k] = ":" /\ \A j \in 1..(k - 1) : s[j] # ":"

(* str.split(':')                                                         *)
RECURSIVE split(_)
split(s) ==
  IF ~HasSep(s) THEN <<s>>
  ELSE <<SubSeq(s, 1, FirstSep(s) - 1)>>
         \o split(SubSeq(s, FirstSep(s) + 1, Len(s)))

namevarSwapped(tok) ==
  LET s == split(tok) IN
  IF Len(s) = 1 THEN [raised |-> FALSE, val |-> <<s[1], s[1]>>]
  ELSE IF Len(s) = 2 THEN [raised |-> FALSE, val |-> <<s[2], s[1]>>]
  ELSE [raised |-> TRUE, val |-> <<>>]
namevarLenient(tok) ==
  LET s == split(tok) IN
  IF Len(s) = 1 THEN [raised |-> FALSE, val |-> <<s[1], s[1]>>]
  ELSE [raised |-> FALSE, val |-> <<s[1], s[2]>>]
namevar(tok) ==
  LET s == split(tok) IN
  IF Len(s) = 1 THEN [raised |-> FALSE, val |-> <<s[1], s[1]>>]
  ELSE IF Len(s) = 2 THEN [raised |-> FALSE, val |-> <<s[1], s[2]>>]
  ELSE [raised |-> TRUE, val |-> <<>>]

(* ----------------------------- cell text ------------------------------ *)
JsonPlain == "{\"mark\": \"bar\"}"
JsonWithData == "{\"mark\": \"bar\", \"data\": {\"url\": \"x\"}}"
YamlPlain == "mark: bar"
Garbage == "{"
CellTexts == {JsonPlain, JsonWithData, YamlPlain, Garbage}

Bar == Str(<<"b", "a", "r">>)
Parsed(val, objs) == [raised |-> FALSE, type |-> "none", val |-> val, objs |-> objs]
ParseError(type) == [raised |-> TRUE, type |-> type, val |-> EmptyDict, objs |-> EmptyDict]

(* json.loads(cell); nested dicts are allocated from object id `id`.      *)
json_loads(text, id) ==
  CASE text = JsonPlain -> Parsed("mark" :> Bar, EmptyDict)
    [] text = JsonWithData ->
         Parsed("mark" :> Bar @@ "data" :> DictRef(id),
                id :> ("url" :> Str(<<"x">>)))
    [] OTHER -> ParseError("JSONDecodeError")

(* yaml.load(cell); YAML reads the JSON texts too.                        *)
yaml_load(text, id) ==
  CASE text = YamlPlain -> Parsed("mark" :> Bar, EmptyDict)
    [] text = Garbage -> ParseError("YAMLError")
    [] OTHER -> json_loads(text, id)

loads(yaml, text, id) == IF yaml THEN yaml_load(text, id) ELSE json_loads(text, id)

(* --------------------------- data normalisation ----------------------- *)
(* pipe(data, data_transformers.get()): a fresh dict of inline records.   *)
transform(handle) == "values" :> [t |-> "records", by |-> handle]

Returned(val, objs) == [raised |-> FALSE, exc |-> NoExc, val |-> val, objs |-> objs]
Raised(e) == [raised |-> TRUE, exc |-> e, val |-> None, objs |-> EmptyDict]

prepare_dataNoWrap(d, transformers, id) ==
  IF d = None \/ d.t = "dict" THEN Returned(d, EmptyDict)
  ELSE IF d = DataFrame THEN Returned(DictRef(id), id :> transform(transformers))
  ELSE IF d.t = "str" THEN Returned(d, EmptyDict)
  ELSE Raised(Raise("NameError", "_prepare_data"))
(* _prepare_data; `warnings` is not imported, so the last branch raises.  *)
_prepare_data(d, transformers, id) ==
  IF d = None \/ d.t = "dict" THEN Returned(d, EmptyDict)
  ELSE IF d = DataFrame THEN Returned(DictRef(id), id :> transform(transformers))
  ELSE IF d.t = "str" THEN Returned(DictRef(id), id :> ("url" :> d))
  ELSE Raised(Raise("NameError", "_prepare_data"))

(* _get_variable                                                          *)
_get_variable(name) ==
  IF name \notin DOMAIN user_ns
  THEN Raised(Raise("NameError", "_get_variable"))
  ELSE Returned(user_ns[name], EmptyDict)

(* `if data:` in vega, `if args.data is not None:` in vegalite            *)
AlwaysData(d) == TRUE
HasData(d) == Len(d) > 0
HasDataArg(d) == d # None

(* -------------------------------- Init -------------------------------- *)
Init ==
  /\ user_ns \in Namespaces
  /\ heap = (StoreObj :> StoreDict)
  /\ nxt = StoreObj + 1
  /\ pc = "idle"
  /\ cmd = "vega"
  /\ args = [data |-> <<>>, version |-> DefaultVersion["vega"], yaml |-> FALSE]
  /\ cell = JsonPlain
  /\ Renderer = "none"
  /\ data_transformers = "none"
  /\ data = <<>>
  /\ spec = EmptyDict
  /\ i = 0
  /\ exc = NoExc
  /\ result = NoResult
  /\ parsed = FALSE
  /\ lookups = <<>>

(* ------------------------------ actions ------------------------------- *)
Fail(e) == exc' = e /\ pc' = "done"

(* magic_arguments.parse_argstring: the cell magic is entered.            *)
Enter(c, a, text) ==
  /\ cmd' = c
  /\ args' = a
  /\ cell' = text
  /\ pc' = "version"
  /\ UNCHANGED <<user_ns, heap, nxt, Renderer, data_transformers, data,
                 spec, i, exc, result, parsed, lookups>>

vega ==
  /\ pc = "idle"
  /\ \E toks \in TokenLists, v \in Versions, y \in BOOLEAN, text \in CellTexts :
    Enter("vega", [data |-> toks, version |-> v, yaml |-> y], text)

vegalite ==
  /\ pc = "idle"
  /\ \E d \in {None} \cup {Str(t) : t \in Tokens}, v \in Versions,
     y \in BOOLEAN, text \in CellTexts :
    Enter("vegalite", [data |-> d, version |-> v, yaml |-> y], text)

(* assert version in RENDERERS[..]; the two table lookups                 *)
CheckVersion ==
  /\ pc = "version"
  /\ IF ~VersionSupported(cmd, args.version)
     THEN /\ Fail(Raise("AssertionError", "assert"))
          /\ UNCHANGED <<Renderer, data_transformers>>
     ELSE IF args.version \notin DOMAIN RENDERERS[cmd]
             \/ args.version \notin DOMAIN TRANSFORMERS[cmd]
     THEN /\ Fail(Raise("KeyError", "tables"))
          /\ UNCHANGED <<Renderer, data_transformers>>
     ELSE /\ Renderer' = RENDERERS[cmd][args.version]
          /\ data_transformers' = TRANSFORMERS[cmd][args.version]
          /\ pc' = IF cmd = "vega" THEN "namevar" ELSE "parse"
          /\ exc' = exc
  /\ UNCHANGED <<user_ns, heap, nxt, cmd, args, cell, data, spec, i,
                 result, parsed, lookups>>

(* data = list(map(namevar, args.data)), ValueError re-raised             *)
MapNamevar ==
  /\ pc = "namevar"
  /\ IF \E k \in 1..Len(args.data) : namevar(args.data[k]).raised
     THEN /\ Fail(Raise("ValueError", "namevar"))
          /\ data' = data
     ELSE /\ data' = [k \in 1..Len(args.data) |-> namevar(args.data[k]).val]
          /\ pc' = "parse"
          /\ exc' = exc
  /\ UNCHANGED <<user_ns, heap, nxt, cmd, args, cell, Renderer,
                 data_transformers, spec, i, result, parsed, lookups>>

(* spec = yaml.load(cell) / json.loads(cell)                              *)
ParseSpec ==
  /\ pc = "parse"
  /\ parsed' = TRUE
  /\ LET r == loads(args.yaml, cell, nxt) IN
     IF r.raised
     THEN /\ Fail(Raise(r.type, "loads"))
          /\ UNCHANGED <<spec, heap, nxt>>
     ELSE /\ spec' = r.val
          /\ heap' = r.objs @@ heap
          /\ nxt' = nxt + Cardinality(DOMAIN r.objs)
          /\ pc' = "data"
          /\ exc' = exc
  /\ UNCHANGED <<user_ns, cmd, args, cell, Renderer, data_transformers,
                 data, i, result, lookups>>

(* vega: `if data: spec['data'] = []`                                     *)
VegaBeginData ==
  /\ pc = "data" /\ cmd = "vega"
  /\ IF HasData(data)
     THEN /\ spec' = SetItem(spec, "data", List(<<>>))
          /\ i' = 1
          /\ pc' = IF Len(data) = 0 THEN "render" ELSE "loop"
     ELSE /\ pc' = "render"
          /\ UNCHANGED <<spec, i>>
  /\ UNCHANGED <<user_ns, heap, nxt, cmd, args, cell, Renderer,
                 data_transformers, data, exc, result, parsed, lookups>>

(* vega: one iteration of `for name, val in data`                         *)
VegaLoop ==
  /\ pc = "loop" /\ cmd = "vega"
  /\ LET name == data[i][1]
         var == data[i][2]
         got == _get_variable(var)
         prep == _prepare_data(got.val, data_transformers, nxt)
         h == prep.objs @@ heap
     IN
     /\ lookups' = Append(lookups, var)
     /\ IF got.raised
        THEN Fail(got.exc) /\ UNCHANGED <<heap, nxt, spec, i>>
        ELSE IF prep.raised
        THEN Fail(prep.exc) /\ UNCHANGED <<heap, nxt, spec, i>>
        ELSE IF prep.val.t # "dict"
        THEN (* prepped['name'] = name on a value that is not a dict *)
             Fail(Raise("TypeError", "setitem")) /\ UNCHANGED <<heap, nxt, spec, i>>
        ELSE /\ heap' = [h EXCEPT ![prep.val.id] = SetItem(@, "name", Str(name))]
             /\ nxt' = nxt + Cardinality(DOMAIN prep.objs)
             /\ spec' = [spec EXCEPT !["data"] = List(Append(@.items, prep.val))]
             /\ i' = i + 1
             /\ pc' = IF i = Len(data) THEN "render" ELSE "loop"
             /\ exc' = exc
  /\ UNCHANGED <<user_ns, cmd, args, cell, Renderer, data_transformers,
                 data, result, parsed>>

(* vegalite: `if args.data is not None: spec['data'] = _prepare_data(..)` *)
VegaliteData ==
  /\ pc = "data" /\ cmd = "vegalite"
  /\ IF HasDataArg(args.data)
     THEN LET got == _get_variable(args.data.s)
              prep == _prepare_data(got.val, data_transformers, nxt)
          IN
          /\ lookups' = Append(lookups, args.data.s)
          /\ IF got.raised
             THEN Fail(got.exc) /\ UNCHANGED <<heap, nxt, spec>>
             ELSE IF prep.raised
             THEN Fail(prep.exc) /\ UNCHANGED <<heap, nxt, spec>>
             ELSE /\ heap' = prep.objs @@ heap
                  /\ nxt' = nxt + Cardinality(DOMAIN prep.objs)
                  /\ spec' = SetItem(spec, "data", prep.val)
                  /\ pc' = "render"
                  /\ exc' = exc
     ELSE /\ pc' = "render"
          /\ UNCHANGED <<heap, nxt, spec, exc, lookups>>
  /\ UNCHANGED <<user_ns, cmd, args, cell, Renderer, data_transformers,
                 data, i, result, parsed>>

(* return Vega(spec) / return VegaLite(spec)                              *)
Render ==
  /\ pc = "render"
  /\ result' = [constructed |-> TRUE, cls |-> Renderer, spec |-> spec]
  /\ pc' = "done"
  /\ UNCHANGED <<user_ns, heap, nxt, cmd, args, cell, Renderer,
                 data_transformers, data, spec, i, exc, parsed, lookups>>

(* the magic returns or its exception propagates: the invocation's     *)
(* locals and the objects only they reference are discarded             *)
Return ==
  /\ pc = "done"
  /\ pc' = "idle"
  /\ heap' = [id \in StoreObjs |-> heap[id]]
  /\ nxt' = StoreObj + 1
  /\ cmd' = "vega"
  /\ args' = [data |-> <<>>, version |-> DefaultVersion["vega"], yaml |-> FALSE]
  /\ cell' = JsonPlain
  /\ Renderer' = "none"
  /\ data_transformers' = "none"
  /\ data' = <<>>
  /\ spec' = EmptyDict
  /\ i' = 0
  /\ exc' = NoExc
  /\ result' = NoResult
  /\ parsed' = FALSE
  /\ lookups' = <<>>
  /\ UNCHANGED user_ns

Next ==
  \/ vega
  \/ vegalite
  \/ CheckVersion
  \/ MapNamevar
  \/ ParseSpec
  \/ VegaBeginData
  \/ VegaLoop
  \/ VegaliteData
  \/ Render
  \/ Return

Spec == Init /\ [][Next]_vars

(* ---------------------- vocabulary of the claims ---------------------- *)
Colons(tok) == Cardinality({k \in 1..Len(tok) : tok[k] = ":"})
ArgTokens ==
  IF cmd = "vega" THEN args.data
  ELSE IF args.data = None THEN <<>> ELSE <<args.data.s>>
Supported == args.version \in DOMAIN RENDERERS[cmd]
WellFormed == \A k \in 1..Len(ArgTokens) : Colons(ArgTokens[k]) <= 1
Malformed == \E k \in 1..Len(ArgTokens) : Colons(ArgTokens[k]) >= 2
CellValue == loads(args.yaml, cell, StoreObj + 1)
CellParses == ~CellValue.raised
(* the variable names the invocation refers to, once the tokens resolved *)
RefNames ==
  IF cmd = "vega" THEN {data[k][2] : k \in 1..Len(data)}
  ELSE IF args.data = None THEN {} ELSE {args.data.s}
Resolved ==
  /\ cmd = "vega"
  /\ \/ pc \in {"parse", "data", "loop", "render"}
     \/ pc = "done" /\ exc.at \notin {"assert", "tables", "namevar"}
Finished == pc = "done"

(* C1: an invocation of either command with a version that is not a key  *)
(* of the renderer table of its family ends with the assertion error,    *)
(* and never parses the cell, looks a variable up or builds a renderer.  *)
C1_UnsupportedVersionRejectedFirst ==
  (pc # "idle" /\ ~Supported) =>
    /\ pc \in {"version", "done"}
    /\ ~parsed
    /\ lookups = <<>>
    /\ ~result.constructed
    /\ Finished => exc = Raise("AssertionError", "assert")
C1_Witness ==
  /\ Finished /\ cmd = "vegalite" /\ args.version = "3"
  /\ exc.type = "AssertionError"

(* C2: in vega the resolved list has one pair per token, in token order: *)
(* a token x without colon gives (x, x), a token a:b gives (a, b); and   *)
(* resolution fails only on a token with two or more colons.             *)
C2_NamevarPairs ==
  /\ Resolved =>
       /\ Len(data) = Len(args.data)
       /\ \A k \in 1..Len(args.data) :
            /\ Colons(args.data[k]) = 0 => data[k] = <<args.data[k], args.data[k]>>
            /\ \A j \in 1..Len(args.data[k]) :
                 (Colons(args.data[k]) = 1 /\ args.data[k][j] = ":") =>
                   data[k] = <<SubSeq(args.data[k], 1, j - 1),
                               SubSeq(args.data[k], j + 1, Len(args.data[k]))>>
  /\ (cmd = "vega" /\ Finished /\ exc.at = "namevar") => Malformed
C2_Witness ==
  /\ Resolved
  /\ args.data = <<<<"d">>, <<":", "d">>>>
  /\ data = <<<<<<"d">>, <<"d">>>>, <<<<>>, <<"d">>>>>>

(* C3 as stated: in either command, with a supported version (and a     *)
(* parseable cell), a token with more than one colon ends the           *)
(* invocation with the value error and no renderer.                     *)
C3_Original ==
  (Finished /\ Supported /\ CellParses /\ Malformed) =>
    (exc.type = "ValueError" /\ ~result.constructed)
(* C3 amended: that holds of vega, before the cell is parsed or any      *)
(* variable looked up; vegalite never splits its token, raises no value  *)
(* error for it and looks the whole token up as a variable name.         *)
C3_Amended ==
  (Finished /\ Supported /\ Malformed) =>
    IF cmd = "vega"
    THEN /\ exc = Raise("ValueError", "namevar")
         /\ ~result.constructed /\ ~parsed /\ lookups = <<>>
    ELSE /\ exc.type # "ValueError"
         /\ CellParses => lookups = <<args.data.s>>
         /\ (CellParses /\ args.data.s \notin DOMAIN user_ns) =>
              exc = Raise("NameError", "_get_variable")
C3_Witness ==
  /\ Finished /\ cmd = "vega" /\ Supported
  /\ \E k \in 1..Len(args.data) : args.data[k] = <<"d", ":", ":">>
  /\ exc.type = "ValueError"

(* C4: with a supported version, well-formed tokens and a parseable cell,*)
(* a referenced name that the namespace lacks ends the invocation with   *)
(* the name error and no renderer; when all are bound no lookup fails.   *)
C4_Claim ==
  (Finished /\ Supported /\ WellFormed /\ CellParses) =>
    /\ (\E n \in RefNames : n \notin DOMAIN user_ns) =>
         (exc.type = "NameError" /\ ~result.constructed)
    /\ (\A n \in RefNames : n \in DOMAIN user_ns) => exc.at # "_get_variable"

(* C5: with a supported version and no dataset argument the renderer is  *)
(* built from the mapping parsed from the cell, unchanged: no data key   *)
(* is added and a data key of the text keeps its value.                  *)
C5_NoDatasetSpecUnchanged ==
  (Finished /\ Supported /\ ArgTokens = <<>>) =>
    IF CellParses
    THEN /\ exc = NoExc
         /\ result = [constructed |-> TRUE, cls |-> RENDERERS[cmd][args.version],
                      spec |-> CellValue.val]
         /\ \A id \in DOMAIN CellValue.objs : heap[id] = CellValue.objs[id]
         /\ lookups = <<>>
    ELSE exc.at = "loads" /\ ~result.constructed
C5_Witness ==
  /\ Finished /\ cmd = "vega" /\ args.data = <<>> /\ cell = JsonPlain
  /\ result.constructed /\ DOMAIN result.spec = {"mark"}

(* C6: in vega, for a non-empty list of well-formed tokens whose         *)
(* variables are all bound (to None, a mapping, a tabular value or a     *)
(* string), the rendered spec has one data entry per token, in order,    *)
(* the k-th named by the k-th slot.                                      *)
C6_Claim ==
  (/\ Finished /\ cmd = "vega" /\ Supported /\ CellParses
   /\ Len(args.data) > 0 /\ WellFormed
   /\ \A n \in RefNames :
        n \in DOMAIN user_ns /\ user_ns[n].t \in {"None", "dict", "DataFrame", "str"})
  =>
    /\ result.constructed
    /\ result.spec["data"].t = "list"
    /\ Len(result.spec["data"].items) = Len(args.data)
    /\ \A k \in 1..Len(args.data) :
         LET e == result.spec["data"].items[k] IN
         e.t = "dict" /\ heap[e.id]["name"] = Str(data[k][1])

(* C7: in vegalite a bound value of none of the four recognised types is *)
(* no error: the invocation succeeds and data is the raw value.          *)
C7_Claim ==
  (/\ Finished /\ cmd = "vegalite" /\ Supported /\ CellParses
   /\ args.data # None
   /\ args.data.s \in DOMAIN user_ns
   /\ user_ns[args.data.s] = IntVal)
  =>
    /\ exc = NoExc
    /\ result.constructed
    /\ result.spec["data"] = IntVal

(* C8: in vegalite, with a supported version and one argument naming a   *)
(* bound variable of a recognised type, the rendered spec is the parsed  *)
(* mapping with data set to the normalised value: None and a mapping as  *)
(* they are, a string s as a new {url: s}, a tabular value as the output *)
(* of the transformer of the version; no name is attached.               *)
C8_VegaliteData ==
  (/\ Finished /\ cmd = "vegalite" /\ Supported /\ CellParses
   /\ args.data # None
   /\ args.data.s \in DOMAIN user_ns
   /\ user_ns[args.data.s].t \in {"None", "dict", "DataFrame", "str"})
  =>
    LET v == user_ns[args.data.s]
        d == result.spec["data"]
    IN
    /\ exc = NoExc
    /\ result.constructed
    /\ result.cls = RENDERERS["vegalite"][args.version]
    /\ DOMAIN result.spec = DOMAIN CellValue.val \cup {"data"}
    /\ \A key \in DOMAIN CellValue.val \ {"data"} : result.spec[key] = CellValue.val[key]
    /\ v.t \in {"None", "dict"} => d = v
    /\ v.t = "str" =>
         d.t = "dict" /\ d.id \notin StoreObjs /\ heap[d.id] = ("url" :> v)
    /\ v.t = "DataFrame" =>
         /\ d.t = "dict" /\ d.id \notin StoreObjs
         /\ heap[d.id] = transform(TRANSFORMERS["vegalite"][args.version])
C8_Witness ==
  /\ Finished /\ cmd = "vegalite" /\ cell = JsonWithData
  /\ args.data = Str(<<"d">>)
  /\ <<"d">> \in DOMAIN user_ns /\ user_ns[<<"d">>].t = "str"
  /\ result.constructed
  /\ result.spec["data"].t = "dict"

(* C9: an invocation whose cell parses to a mapping ends with the        *)
(* renderer or with one of: the value error for a malformed token, the   *)
(* name error for a name the namespace lacks, the assertion error for    *)
(* an unsupported version.                                               *)
C9_Claim ==
  (Finished /\ CellParses) =>
    \/ result.constructed /\ exc = NoExc
    \/ exc.type = "ValueError" /\ Malformed
    \/ exc.type = "NameError" /\ \E n \in RefNames : n \notin DOMAIN user_ns
    \/ exc.type = "AssertionError" /\ ~Supported

(* C10: the namespace is only read: every mapping it binds keeps the     *)
(* content it had before the invocations.                                *)
C10_Claim ==
  \A n \in DOMAIN user_ns :
    user_ns[n].t = "dict" => heap[user_ns[n].id] = StoreDict

=============================================================================
